---- MODULE Spec2Model ----
(***************************************************************************)
(* Model of the aws-consumer-service message dispatcher (index.go):        *)
(* HandleRequest fans out one ProcessMessage goroutine per Kafka record of *)
(* a partition, waits on the partition's WaitGroup and returns a summary.  *)
(***************************************************************************)
EXTENDS Integers, Sequences, FiniteSets, TLC

(***************************************************************************)
(* Bounds of the checked input space: the most partitions of an envelope   *)
(* and the most records of an envelope, all partitions together.           *)
(***************************************************************************)
MaxPartitions == 2
MaxRecords == 3

(***************************************************************************)
(* JSON values.  A scalar is <<type, literal text>>; with UseNumber a JSON *)
(* number is kept as json.Number, i.e. as its literal text: the sequence   *)
(* of its characters, a digit being 0..9 and Dot the character ".".        *)
(***************************************************************************)
Str(s) == <<"str", s>>
Num(lit) == <<"num", lit>>
Bool(b) == <<"bool", b>>
Null == <<"null", "">>

EmptyMap == [k \in {} |-> Null]

\* m[k] of a Go map[string]interface{}: nil when the key is absent.
Get(m, k) == IF k \in DOMAIN m THEN m[k] ELSE Null

\* x.(string): ok iff the dynamic type is string.
IsString(x) == x[1] = "str"
\* x.(json.Number)
IsNumber(x) == x[1] = "num"

Dot == 10

\* the literal is a JSON integer: digits only
IsDecimal(lit) == lit # <<>> /\ \A i \in 1..Len(lit) : lit[i] \in 0..9

RECURSIVE ParseDigits(_, _, _)
\* the digit loop of strconv.ParseInt: n = n*10 + digit, from the left
ParseDigits(lit, i, n) ==
  IF i > Len(lit) THEN n ELSE ParseDigits(lit, i + 1, n * 10 + lit[i])

\* a conversion that keeps only the low 16 bits
Int64Narrow(lit) == IF IsDecimal(lit) THEN ParseDigits(lit, 1, 0) % 65536 ELSE 0

\* json.Number.Int64(): strconv.ParseInt(literal, 10, 64); 0 (and an error,
\* which the callers ignore) when the literal is not a decimal integer.
Int64(lit) == IF IsDecimal(lit) THEN ParseDigits(lit, 1, 0) ELSE 0

\* encoding/json decoding an object into an existing map: keys of the
\* document overwrite, other entries of the map are kept.
DecodeInto(base, doc) ==
  [k \in DOMAIN base \cup DOMAIN doc |-> IF k \in DOMAIN doc THEN doc[k] ELSE base[k]]

(***************************************************************************)
(* ProcessMessage: defaults.                                               *)
(***************************************************************************)
buildConfigDefaults ==
  [k \in {"container", "serviceAccountName"} |->
     IF k = "container" THEN Str("aws/codebuild/standard:5.0") ELSE Str("default")]

\* provider defaults in which prune is false
messageProviderDefaultsKeep ==
  [k \in {"executorLogs", "dlc", "privilegedMode", "prune", "imagePullCredentialsType",
          "environmentType", "computeType", "queuedTimeout", "launcherComputeType",
          "buildRegion", "debugSession"} |->
     CASE k \in {"executorLogs", "dlc", "privilegedMode", "prune", "debugSession"} ->
            Bool("false")
       [] k = "imagePullCredentialsType" -> Str("SERVICE_ROLE")
       [] k = "environmentType" -> Str("LINUX_CONTAINER")
       [] k \in {"computeType", "launcherComputeType"} -> Str("BUILD_GENERAL1_SMALL")
       [] k = "queuedTimeout" -> Num(<<5>>)
       [] k = "buildRegion" -> Str("")]

messageProviderDefaults ==
  [k \in {"executorLogs", "dlc", "privilegedMode", "prune", "imagePullCredentialsType",
          "environmentType", "computeType", "queuedTimeout", "launcherComputeType",
          "buildRegion", "debugSession"} |->
     CASE k = "executorLogs" -> Bool("false")
       [] k = "dlc" -> Bool("false")
       [] k = "privilegedMode" -> Bool("false")
       [] k = "prune" -> Bool("true")
       [] k = "imagePullCredentialsType" -> Str("SERVICE_ROLE")
       [] k = "environmentType" -> Str("LINUX_CONTAINER")
       [] k = "computeType" -> Str("BUILD_GENERAL1_SMALL")
       [] k = "queuedTimeout" -> Num(<<5>>)
       [] k = "launcherComputeType" -> Str("BUILD_GENERAL1_SMALL")
       [] k = "buildRegion" -> Str("")
       [] k = "debugSession" -> Bool("false")]

\* for k, v := range providerDefaults { if provider[k] == nil { provider[k] = v } }
ApplyProviderDefaults(provider) ==
  [k \in DOMAIN provider \cup DOMAIN messageProviderDefaults |->
     IF k \in DOMAIN messageProviderDefaults /\ Get(provider, k) = Null
       THEN messageProviderDefaults[k]
       ELSE provider[k]]

(***************************************************************************)
(* Executor registry.                                                      *)
(***************************************************************************)
NilExecutor == [name |-> "<nil>", region |-> ""]

\* one list built once for the region us-west-2 and used for every message
executorsListShared(region) ==
  << [name |-> "eks", region |-> "us-west-2"], [name |-> "sls", region |-> "us-west-2"] >>

\* eksExecutor.New(region), slsExecutor.New(region)
executorsList(region) ==
  << [name |-> "eks", region |-> region], [name |-> "sls", region |-> region] >>

RECURSIVE SelectExecutor(_, _, _, _)
\* the range loop of GetExecutor: currentExecutor is overwritten by every match
SelectExecutor(executors, i, name, currentExecutor) ==
  IF i > Len(executors) THEN currentExecutor
  ELSE SelectExecutor(executors, i + 1, name,
         IF executors[i].name = name THEN executors[i] ELSE currentExecutor)

\* if v.Name() != name
GetExecutorInverted(name, region) ==
  LET executors == executorsList(region)
  IN  IF executors[2].name # name THEN executors[2] ELSE executors[1]

\* the first executor as the default instead of nil
GetExecutorDefault(name, region) ==
  SelectExecutor(executorsList(region), 1, name, executorsList(region)[1])

GetExecutor(name, region) == SelectExecutor(executorsList(region), 1, name, NilExecutor)

(***************************************************************************)
(* Kafka record values.  A value is described by what decoding it yields:  *)
(* b64 - whether base64.StdEncoding.DecodeString reports an error (the     *)
(*       bytes decoded before the corrupt input are still returned);       *)
(* json - whether decoder.Decode of those bytes reports an error;          *)
(* job, executorType, buildConfig, provider - the decoded document, with   *)
(*       "" for a missing string field (Go's zero value).                  *)
(***************************************************************************)
GoodConfig ==
  [k \in {"buildId", "jobId", "buildTimeout", "apiUri", "token", "container"} |->
     CASE k = "buildId" -> Num(<<1, 2, 6, 6, 7, 5>>)
       [] k = "jobId" -> Num(<<4, 1, 7, 6, 6>>)
       [] k = "buildTimeout" -> Num(<<6, 0>>)
       [] k = "apiUri" -> Str("https://beta.api.screwdriver.cd")
       [] k = "token" -> Str("token")
       [] k = "container" -> Str("centos:centos7")]

ProviderMap(m) == [kind |-> "map", m |-> m]
NoProvider == [kind |-> "absent", m |-> EmptyMap]
ScalarProvider == [kind |-> "scalar", m |-> EmptyMap]

GoodProvider == ProviderMap([k \in {"region"} |-> Str("us-west-2")])

Value(b64, json, job, executorType, buildConfig, provider) ==
  [b64 |-> b64, json |-> json, job |-> job, executorType |-> executorType,
   buildConfig |-> buildConfig, provider |-> provider]

Msg(job, executorType) == Value("ok", "ok", job, executorType, GoodConfig, GoodProvider)

BadJSON == Value("ok", "error", "", "", EmptyMap, NoProvider)

\* a provider that names a defaulted key with the JSON value null
NullPruneProvider ==
  ProviderMap([k \in {"region", "prune"} |->
                 IF k = "region" THEN Str("us-west-2") ELSE Null])

\* a buildConfig and a provider that set every defaulted key themselves
FullConfig ==
  [k \in DOMAIN GoodConfig \cup {"serviceAccountName"} |->
     IF k = "serviceAccountName" THEN Str("sd-build") ELSE GoodConfig[k]]

FullProvider ==
  ProviderMap(
    [k \in {"region", "executorLogs", "dlc", "privilegedMode", "prune",
            "imagePullCredentialsType", "environmentType", "computeType",
            "queuedTimeout", "launcherComputeType", "buildRegion", "debugSession"} |->
       CASE k = "region" -> Str("us-west-2")
         [] k = "executorLogs" -> Bool("true")
         [] k = "dlc" -> Bool("true")
         [] k = "privilegedMode" -> Bool("true")
         [] k = "prune" -> Bool("false")
         [] k = "imagePullCredentialsType" -> Str("CODEBUILD")
         [] k = "environmentType" -> Str("ARM_CONTAINER")
         [] k = "computeType" -> Str("BUILD_GENERAL1_LARGE")
         [] k = "queuedTimeout" -> Num(<<1, 2, 7, 1, 1, 3>>)
         [] k = "launcherComputeType" -> Str("BUILD_GENERAL1_MEDIUM")
         [] k = "buildRegion" -> Str("us-east-1")
         [] k = "debugSession" -> Bool("true")])

\* the record values of the checked envelopes
Values ==
  { Msg("start", "eks"), Msg("", "eks"), BadJSON,
    Msg("start", "sls"), Msg("stop", "eks"), Msg("stop", "sls"),
    Msg("restart", "eks"), Msg("restart", "sls"),
    Msg("start", "unknown"), Msg("stop", "unknown"), Msg("restart", "unknown"),
    Msg("start", "EKS"), Msg("start", ""), Msg("", ""),
    Value("corrupt", "ok", "restart", "eks", GoodConfig, GoodProvider),
    Value("corrupt", "ok", "start", "eks", GoodConfig, GoodProvider),
    Value("corrupt", "error", "", "", EmptyMap, NoProvider),
    Value("ok", "ok", "start", "eks", GoodConfig, NoProvider),
    Value("ok", "ok", "start", "eks", GoodConfig, ScalarProvider),
    Value("ok", "ok", "start", "eks", GoodConfig, ProviderMap(EmptyMap)),
    Value("ok", "ok", "stop", "sls", GoodConfig,
          ProviderMap([k \in {"buildRegion"} |-> Str("us-east-1")])),
    Value("ok", "ok", "start", "sls", GoodConfig,
          ProviderMap([k \in {"buildRegion", "region"} |->
                         IF k = "region" THEN Str("us-west-2") ELSE Num(<<1>>)])),
    Value("ok", "ok", "start", "eks", [k \in {"apiUri", "token"} |-> Str("x")], GoodProvider),
    Value("ok", "ok", "stop", "sls", GoodConfig, NullPruneProvider),
    Value("ok", "ok", "start", "sls", FullConfig, FullProvider),
    Value("ok", "ok", "start", "eks",
          [GoodConfig EXCEPT !["buildId"] = Num(<<1, Dot, 5>>)], GoodProvider),
    Value("ok", "ok", "", "eks", GoodConfig, NoProvider) }

\* provider.region first, buildRegion when region is no string
EffectiveRegionFirst(buildRegion, region) ==
  IF IsString(region) THEN region[2] ELSE buildRegion[2]

\* buildRegion := provider["buildRegion"].(string)
\* if buildRegion == "" { buildRegion = provider["region"].(string) }
EffectiveRegion(buildRegion, region) ==
  IF buildRegion[2] = "" THEN region[2] ELSE buildRegion[2]

(***************************************************************************)
(* ProcessMessage, lines 78-140: decoding, defaulting and the effective    *)
(* region.  The result tells how the stage ends: "fatal" (log.Fatal),      *)
(* "panic" (a failed type assertion) or "ok".                              *)
(***************************************************************************)
DecodeStage(value) ==
  LET err == IF value.b64 = "ok" THEN "nil" ELSE "base64"
      buildConfig == DecodeInto(buildConfigDefaults, value.buildConfig)
      provider == ApplyProviderDefaults(value.provider.m)
      buildRegion == Get(provider, "buildRegion")
      region == Get(provider, "region")
      blank == [outcome |-> "fatal", err |-> err, job |-> "", executorType |-> "",
                buildConfig |-> EmptyMap, provider |-> EmptyMap, buildRegion |-> ""]
  IN  IF value.json # "ok" THEN blank
      ELSE IF value.provider.kind # "map"
        THEN [blank EXCEPT !.outcome = "panic"]
      ELSE IF ~IsString(buildRegion)
        THEN [blank EXCEPT !.outcome = "panic"]
      ELSE IF buildRegion[2] = "" /\ ~IsString(region)
        THEN [blank EXCEPT !.outcome = "panic"]
      ELSE [outcome |-> "ok", err |-> err, job |-> value.job,
            executorType |-> value.executorType,
            buildConfig |-> buildConfig, provider |-> provider,
            buildRegion |-> EffectiveRegion(buildRegion, region)]

(***************************************************************************)
(* State.                                                                  *)
(***************************************************************************)
VARIABLES
  request,   \* request.Records: partition key -> sequence of record values
  env,       \* how the external services answer the calls made for each record
  hr,        \* the HandleRequest goroutine: position and local variables
  wg,        \* the WaitGroup counter of each partition's loop iteration
  workers,   \* the ProcessMessage goroutines, in the order of their go statements
  proc,      \* the process: "running", "exited" (os.Exit) or "crashed" (unrecovered panic)
  api,       \* a call of SDAPI.UpdateBuild: its arguments, position and result
  sls,       \* a call of the serverless executor: its config, position and result
  eks        \* one EKS executor: its cached clientset and the goroutines calling it

vars == <<request, env, hr, wg, workers, proc, api, sls, eks>>

(***************************************************************************)
(* The executors and the build-tracking API are external.  How they answer *)
(* the calls made for a record is fixed with the envelope: start is the    *)
(* result of executor.Start, stop of executor.Stop, update of UpdateBuild. *)
(***************************************************************************)
\* (hostname, err) of executor.Start, or a panic inside the call
StartResults ==
  { [hostname |-> "node123", err |-> "nil", panic |-> FALSE],
    [hostname |-> "", err |-> "nil", panic |-> FALSE],
    [hostname |-> "", err |-> "executor", panic |-> FALSE],
    [hostname |-> "", err |-> "nil", panic |-> TRUE] }

\* err of executor.Stop, or a panic inside the call
StopResults ==
  { [hostname |-> "", err |-> "nil", panic |-> FALSE],
    [hostname |-> "", err |-> "executor", panic |-> FALSE],
    [hostname |-> "", err |-> "nil", panic |-> TRUE] }

\* apierr of api.UpdateBuild
UpdateBuildResults == { "nil", "api" }

Answers == [start : StartResults, stop : StopResults, update : UpdateBuildResults]

Starts == [hostname |-> "node123", err |-> "nil", panic |-> FALSE]
Stops == [hostname |-> "", err |-> "nil", panic |-> FALSE]
Fails == [hostname |-> "", err |-> "executor", panic |-> FALSE]
Panics == [hostname |-> "", err |-> "nil", panic |-> TRUE]

AllFine == [start |-> Starts, stop |-> Stops, update |-> "nil"]
AllFail == [start |-> Fails, stop |-> Fails, update |-> "api"]
AllPanic == [start |-> Panics, stop |-> Panics, update |-> "nil"]

Record(value, answer) == [value |-> value, answer |-> answer]

\* record i of partition k in the envelopes of several partitions: a start
\* that succeeds alternates with a stop whose executor call panics
PartitionedRecord(k, i) ==
  IF (k + i) % 2 = 0 THEN Record(Msg("start", "eks"), AllFine)
  ELSE Record(Msg("stop", "sls"), AllPanic)

\* records of the envelopes of one partition of several records
BatchRecords ==
  { Record(Msg("start", "eks"), AllFine), Record(Msg("start", "sls"), AllFail),
    Record(Msg("", "eks"), AllFine), Record(Msg("start", "EKS"), AllFine),
    Record(BadJSON, AllFine) }

\* the start and the stop of one build in one partition, in either order
RaceEnvelopes ==
  { [k \in {1} |-> << Record(Msg("start", "sls"), AllFine),
                      Record(Msg("stop", "sls"), AllFine) >>],
    [k \in {1} |-> << Record(Msg("stop", "sls"), AllFine),
                      Record(Msg("start", "sls"), AllFine) >>] }

\* two records of one partition whose effective regions differ
MixedRegions ==
  [k \in {1} |-> << Record(Msg("start", "sls"), AllFine),
                    Record(Value("ok", "ok", "start", "sls", FullConfig, FullProvider),
                           AllFine) >>]

\* records of the envelopes of one record
SingleRecords == { Record(v, a) : v \in Values, a \in Answers }

PartitionKeys == 1..MaxPartitions

RECURSIVE SeqsUpTo(_, _)
\* the sequences over S of length at most n
SeqsUpTo(S, n) ==
  IF n = 0 THEN { <<>> }
  ELSE LET shorter == SeqsUpTo(S, n - 1)
       IN  shorter \cup { Append(q, x) : q \in { r \in shorter : Len(r) = n - 1 }, x \in S }

RECURSIVE TotalLen(_, _)
\* the number of records of the partitions ks when partition k holds len[k]
TotalLen(len, ks) ==
  IF ks = {} THEN 0
  ELSE LET k == CHOOSE x \in ks : TRUE IN len[k] + TotalLen(len, ks \ {k})

\* the envelopes of n partitions holding at most MaxRecords records together
PartitionedEnvelopes(n) ==
  { [k \in 1..n |-> [i \in 1..len[k] |-> PartitionedRecord(k, i)]] :
      len \in { l \in [1..n -> 0..MaxRecords] : TotalLen(l, 1..n) <= MaxRecords } }

\* the checked inputs: partition key -> sequence of records
Scenarios ==
  UNION { PartitionedEnvelopes(n) : n \in 0..MaxPartitions }
  \cup [{1} -> SeqsUpTo(BatchRecords, MaxRecords)]
  \cup { [k \in {1} |-> <<r>>] : r \in SingleRecords }
  \cup RaceEnvelopes \cup {MixedRegions}

NoResponse == [text |-> "", total |-> -1, err |-> ""]

\* no call of the serverless executor is being followed
NoSlsCall ==
  [pc |-> "idle", method |-> "", config |-> EmptyMap, provider |-> NoProvider,
   aws |-> <<>>, bucket |-> <<>>, launcherUpdate |-> FALSE, project |-> <<>>,
   projectArn |-> <<>>, calls |-> <<>>,
   result |-> [handle |-> <<>>, err |-> <<>>], panicked |-> FALSE]

\* no EKS executor is being followed
NoEksCall ==
  [k8sClientset |-> <<>>, config |-> EmptyMap, aws |-> <<>>, describes |-> 0,
   writes |-> <<>>, g |-> <<>>]

\* no call of SDAPI.UpdateBuild is being followed
NoAPICall ==
  [pc |-> "idle", baseURL |-> "", stats |-> EmptyMap, buildID |-> 0, statusMessage |-> "",
   response |-> 0, url |-> <<>>, puts |-> <<>>, err |-> ""]

\* fmt.Sprintf("Finished processing messages: %v", totalRecords), nil
Summary(totalRecords) ==
  [text |-> "Finished processing messages: ", total |-> totalRecords, err |-> "nil"]

\* a goroutine started by go ProcessMessage(id, value, &wg, ctx), wg being the
\* WaitGroup of partition part; answer is what the external services will
\* answer to its calls
NewWorker(part, id, value, answer) ==
  [part |-> part, id |-> id, value |-> value, answer |-> answer, pc |-> "start",
   job |-> "", executorType |-> "", buildConfig |-> EmptyMap, provider |-> EmptyMap,
   buildRegion |-> "", executor |-> NilExecutor, hostname |-> "", err |-> "nil",
   panicking |-> FALSE, recovered |-> FALSE, dones |-> 0, calls |-> <<>>, logs |-> <<>>]

Init ==
  /\ \E sc \in Scenarios :
       /\ request = [k \in DOMAIN sc |-> [i \in 1..Len(sc[k]) |-> sc[k][i].value]]
       /\ env = [k \in DOMAIN sc |-> [i \in 1..Len(sc[k]) |-> sc[k][i].answer]]
  /\ hr = [pc |-> "loop", pending |-> DOMAIN request, cur |-> 0, count |-> 0, i |-> 0,
           totalRecords |-> 0, response |-> NoResponse]
  /\ wg = [k \in DOMAIN request |-> 0]
  /\ workers = <<>>
  /\ proc = "running"
  /\ api = NoAPICall
  /\ sls = NoSlsCall
  /\ eks = NoEksCall

(***************************************************************************)
(* HandleRequest.                                                          *)
(***************************************************************************)
\* totalRecords = count
AddCountOverwrite(totalRecords, count) == count

\* totalRecords += count
AddCount(totalRecords, count) == totalRecords + count

\* record[0].Value
RecordValueFirst(record, i) == record[1]

\* record[i].Value (Go indexes from 0, sequences from 1)
RecordValue(record, i) == record[i + 1]

\* no wait at all
WaitReturnsAlways(counter) == TRUE

\* wg.Wait() returns when the counter is zero
\* a Wait that returns while one worker has not signalled
WaitReturnsEarly(counter) == counter <= 1

WaitReturns(counter) == counter = 0

\* for k, record := range request.Records (Go iterates a map in no fixed
\* order): count, totalRecords += count, wg.Add(count)
HRNextPartition ==
  /\ proc = "running"
  /\ hr.pc = "loop"
  /\ \E k \in hr.pending :
       LET count == Len(request[k])
       IN  /\ hr' = [hr EXCEPT !.pc = "launch", !.pending = @ \ {k}, !.cur = k,
                                !.count = count, !.i = 0,
                                !.totalRecords = AddCount(@, count)]
           /\ wg' = [wg EXCEPT ![k] = @ + count]
  /\ UNCHANGED <<eks, api, sls, request, env, workers, proc>>

\* go ProcessMessage(i, record[i].Value, &wg, ctx); i++
HRLaunch ==
  /\ proc = "running"
  /\ hr.pc = "launch"
  /\ hr.i < hr.count
  /\ workers' = Append(workers, NewWorker(hr.cur, hr.i, RecordValue(request[hr.cur], hr.i),
                                         env[hr.cur][hr.i + 1]))
  /\ hr' = [hr EXCEPT !.i = @ + 1]
  /\ UNCHANGED <<eks, api, sls, request, env, wg, proc>>

\* the launch loop is over; wg.Wait()
HRWait ==
  /\ proc = "running"
  /\ hr.pc = "launch"
  /\ hr.i >= hr.count
  /\ WaitReturns(wg[hr.cur])
  /\ hr' = [hr EXCEPT !.pc = "loop"]
  /\ UNCHANGED <<eks, api, sls, request, env, wg, workers, proc>>

\* return fmt.Sprintf("Finished processing messages: %v", totalRecords), nil
\* (the deferred finalRecover finds no panic in this goroutine)
HRReturn ==
  /\ proc = "running"
  /\ hr.pc = "loop"
  /\ hr.pending = {}
  /\ hr' = [hr EXCEPT !.pc = "returned",
                      !.response = Summary(hr.totalRecords)]
  /\ UNCHANGED <<eks, api, sls, request, env, wg, workers, proc>>

(***************************************************************************)
(* ProcessMessage.                                                         *)
(***************************************************************************)
\* a panic that is recovered before anything else is run
AfterBodyRecover(panicking) == IF panicking THEN "deferRecover" ELSE "deferDone"

\* defer recoverPanic(); defer wg.Done(): when the body ends, by return or
\* by panic, the deferred calls run last-in first-out, wg.Done first
AfterBody(panicking) == "deferDone"

\* switch string(job): the executor method called
JobMethod(job) ==
  CASE job = "start" -> "Start"
    [] job = "stop" -> "Stop"
    [] OTHER -> "none"

\* UpdateBuildStats without the test of hostname
ReportsStatsAlways(hostname) == TRUE

\* UpdateBuildStats: if hostname != ""
ReportsStats(hostname) == hostname # ""

\* stats := map[string]interface{}{"hostname": hostname,
\*                                 "imagePullStartTime": time.Now().In(utcLoc)}
Stats(hostname) ==
  [k \in {"hostname", "imagePullStartTime"} |->
     IF k = "hostname" THEN Str(hostname) ELSE <<"time", "now">>]

\* an UpdateBuildStats that drops the error
UpdateBuildLogSilent(apierr) == <<>>

\* if apierr := api.UpdateBuild(...); apierr != nil { log.Printf(...) }
UpdateBuildLog(apierr) == IF apierr = "nil" THEN <<>> ELSE <<"Updating build stats">>

\* api(apiUri, token): sd.New builds the client and never fails
NewAPI(apiUri, token) ==
  [exec |-> [name |-> "sdapi", region |-> apiUri], method |-> "New",
   config |-> [token |-> token]]

\* a recoverPanic that does not call recover()
recoverPanicNot(panicking) == FALSE

\* recoverPanic: recover() stops the panic of the goroutine it is deferred in
recoverPanic(panicking) == panicking

Panic(wk, tag) ==
  [wk EXCEPT !.pc = AfterBody(TRUE), !.panicking = TRUE, !.logs = Append(@, tag)]

\* lines 78-142
PMDecode(w) ==
  /\ proc = "running"
  /\ workers[w].pc = "start"
  /\ LET wk == workers[w]
         d == DecodeStage(wk.value)
         b64log == IF d.err = "nil" THEN <<>> ELSE <<"Base64 Decode Error">>
     IN  CASE d.outcome = "fatal" ->
                /\ workers' = [workers EXCEPT ![w] =
                     [wk EXCEPT !.pc = "fatal", !.logs = b64log \o <<"Fatal">>]]
                /\ proc' = "exited"
           [] d.outcome = "panic" ->
                /\ workers' = [workers EXCEPT ![w] =
                     Panic([wk EXCEPT !.logs = b64log], "panic: type assertion")]
                /\ UNCHANGED proc
           [] OTHER ->
                /\ workers' = [workers EXCEPT ![w] =
                     [wk EXCEPT !.pc = IF d.executorType # "" /\ d.job # ""
                                         THEN "dispatch" ELSE AfterBody(FALSE),
                                !.job = d.job, !.executorType = d.executorType,
                                !.buildConfig = d.buildConfig, !.provider = d.provider,
                                !.buildRegion = d.buildRegion, !.err = d.err,
                                !.logs = b64log]]
                /\ UNCHANGED proc
  /\ UNCHANGED <<eks, api, sls, request, env, hr, wg>>

Call(executor, method, wk) ==
  [exec |-> executor, method |-> method,
   config |-> [buildConfig |-> wk.buildConfig, provider |-> wk.provider]]

\* a result log that ignores the error
ResultLogSuccess(job, err) == << job \o " build successful">>

ResultLog(job, err) ==
  IF err # "nil" THEN <<"Failed to " \o job \o " build">> ELSE << job \o " build successful">>

\* lines 143-155
PMDispatch(w) ==
  /\ proc = "running"
  /\ workers[w].pc = "dispatch"
  /\ LET wk == workers[w]
         executor == GetExecutor(wk.executorType, wk.buildRegion)
         method == JobMethod(wk.job)
     IN  IF method = "none"
           THEN workers' = [workers EXCEPT ![w] =
                  [wk EXCEPT !.pc = "report", !.executor = executor,
                             !.logs = @ \o ResultLog(wk.job, wk.err)]]
         ELSE IF executor = NilExecutor
           THEN workers' = [workers EXCEPT ![w] =
                  Panic([wk EXCEPT !.executor = executor], "panic: nil pointer dereference")]
         ELSE LET r == IF method = "Start" THEN wk.answer.start ELSE wk.answer.stop
                  called == [wk EXCEPT !.executor = executor,
                                       !.calls = Append(@, Call(executor, method, wk))]
              IN  IF r.panic
                    THEN workers' = [workers EXCEPT ![w] = Panic(called, "panic: executor")]
                    ELSE workers' = [workers EXCEPT ![w] =
                           [called EXCEPT !.pc = "report", !.hostname = r.hostname,
                                          !.err = r.err,
                                          !.logs = @ \o ResultLog(wk.job, r.err)]]
  /\ UNCHANGED <<eks, api, sls, request, env, hr, wg, proc>>

\* lines 156-161 and UpdateBuildStats
PMReport(w) ==
  /\ proc = "running"
  /\ workers[w].pc = "report"
  /\ LET wk == workers[w]
         buildId == Get(wk.buildConfig, "buildId")
         apiUri == Get(wk.buildConfig, "apiUri")
         token == Get(wk.buildConfig, "token")
     IN  IF ~IsNumber(buildId) \/ ~IsString(apiUri) \/ ~IsString(token)
           THEN workers' = [workers EXCEPT ![w] = Panic(wk, "panic: type assertion")]
         ELSE IF ReportsStats(wk.hostname)
           THEN workers' = [workers EXCEPT ![w] =
                  [wk EXCEPT !.pc = AfterBody(FALSE),
                             !.calls = @ \o
                               << NewAPI(apiUri[2], token[2]),
                                  [exec |-> [name |-> "sdapi", region |-> apiUri[2]],
                                   method |-> "UpdateBuild",
                                   config |-> [buildID |-> Int64(buildId[2]),
                                               stats |-> Stats(wk.hostname),
                                               statusMessage |-> ""]] >>,
                             !.logs = @ \o UpdateBuildLog(wk.answer.update)]]
         ELSE workers' = [workers EXCEPT ![w] =
                [wk EXCEPT !.pc = AfterBody(FALSE),
                           !.calls = Append(@, NewAPI(apiUri[2], token[2]))]]
  /\ UNCHANGED <<eks, api, sls, request, env, hr, wg, proc>>

\* deferred wg.Done(): the counter is decremented; a negative counter panics
PMDeferDone(w) ==
  /\ proc = "running"
  /\ workers[w].pc = "deferDone"
  /\ LET wk == workers[w]
         negative == wg[wk.part] - 1 < 0
     IN  /\ wg' = [wg EXCEPT ![wk.part] = @ - 1]
         /\ workers' = [workers EXCEPT ![w] =
              [wk EXCEPT !.pc = "deferRecover", !.dones = @ + 1,
                         !.panicking = @ \/ negative,
                         !.logs = IF negative
                                    THEN Append(@, "panic: negative WaitGroup counter")
                                    ELSE @]]
  /\ UNCHANGED <<eks, api, sls, request, env, hr, proc>>

\* finalRecover is deferred by HandleRequest: its recover() stops a panic of
\* the goroutine running HandleRequest and of no other goroutine
finalRecover(goroutine, panicking) == panicking /\ goroutine = "HandleRequest"

\* deferred recoverPanic(), then the goroutine ends; a goroutine that ends
\* while still panicking crashes the process
PMDeferRecover(w) ==
  /\ proc = "running"
  /\ workers[w].pc = "deferRecover"
  /\ LET wk == workers[w]
         recovers == wk.panicking /\ recoverPanic(wk.panicking)
     IN  /\ workers' = [workers EXCEPT ![w] =
              [wk EXCEPT !.pc = "ended",
                         !.recovered = recovers,
                         !.panicking = @ /\ ~recovers,
                         !.logs = IF recovers THEN Append(@, "stacktrace") ELSE @]]
         /\ proc' = IF wk.panicking /\ ~recovers
                          /\ ~finalRecover("ProcessMessage", wk.panicking)
                       THEN "crashed" ELSE proc
  /\ UNCHANGED <<eks, api, sls, request, env, hr, wg>>

Next ==
  \/ HRNextPartition
  \/ HRLaunch
  \/ HRWait
  \/ HRReturn
  \/ \E w \in 1..Len(workers) : PMDecode(w)
  \/ \E w \in 1..Len(workers) : PMDispatch(w)
  \/ \E w \in 1..Len(workers) : PMReport(w)
  \/ \E w \in 1..Len(workers) : PMDeferDone(w)
  \/ \E w \in 1..Len(workers) : PMDeferRecover(w)

Spec == Init /\ [][Next]_vars

(***************************************************************************)
(* SDAPI.UpdateBuild (screwdriver.go), followed on its own: the arguments  *)
(* are drawn in InitAPI; response is what the HTTP client finally gets for *)
(* the request, a status code or TransportError.                           *)
(***************************************************************************)
TransportError == 0

Responses == {200, 204, 400, 404, 500, TransportError}

\* the stats maps of the checked calls: each key absent or present, the
\* hostname a name, the empty string or null
StatsMaps ==
  LET hostnames == {Str("node123"), Str(""), Null}
      times == {Str("2012:2332532"), Num(<<2, 3, 3, 2, 5, 3, 2>>)}
  IN  {EmptyMap}
      \cup {[k \in {"hostname"} |-> h] : h \in hostnames}
      \cup {[k \in {"imagePullStartTime"} |-> t] : t \in times}
      \cup {[k \in {"hostname", "imagePullStartTime"} |->
               IF k = "hostname" THEN h ELSE t] : h \in hostnames, t \in times}

APICalls ==
  [pc : {"makeURL"}, baseURL : {"http://fakeurl", "%zz"}, stats : StatsMaps,
   buildID : {15, 126675}, statusMessage : {"", "message"}, response : Responses,
   url : {<<>>}, puts : {<<>>}, err : {""}]

\* HandleRequest is not running
NoRequest ==
  /\ request = <<>> /\ env = <<>> /\ wg = <<>> /\ workers = <<>>
  /\ hr = [pc |-> "idle", pending |-> {}, cur |-> 0, count |-> 0, i |-> 0,
           totalRecords |-> 0, response |-> NoResponse]
  /\ proc = "running"

InitAPI ==
  /\ NoRequest
  /\ api \in APICalls
  /\ sls = NoSlsCall
  /\ eks = NoEksCall

\* makeURL: url.Parse(baseURL + "/v4/" + path) fails on a malformed base URL
makeURL(baseURL, path) ==
  IF baseURL = "%zz" THEN [url |-> <<>>, err |-> "parse"]
  ELSE [url |-> <<baseURL, "v4">> \o path, err |-> "nil"]

\* a test of the value instead of the key: val, _ := stats[key]; val == ""
HasKeyNonEmpty(stats, key) == key \in DOMAIN stats /\ stats[key] \notin {Null, Str("")}

\* _, ok := stats[key]
HasKey(stats, key) == key \in DOMAIN stats

\* BuildUpdatePayload: statusMessage is omitted when empty
Payload(stats, statusMessage) ==
  IF statusMessage # "" THEN [stats |-> stats, statusMessage |-> statusMessage]
  ELSE [stats |-> stats]

\* the err of SDAPI.write for the response the client got
write(response) ==
  IF response = TransportError THEN "received error"
  ELSE IF response \div 100 # 2 THEN "received response"
  ELSE "nil"

\* u, err := a.makeURL(fmt.Sprintf("builds/%d", buildID))
UBMakeURL ==
  /\ api.pc = "makeURL"
  /\ LET u == makeURL(api.baseURL, <<"builds", api.buildID>>)
     IN  api' = IF u.err # "nil"
                  THEN [api EXCEPT !.pc = "returned", !.err = "creating url"]
                  ELSE [api EXCEPT !.pc = "check", !.url = u.url]
  /\ UNCHANGED <<request, env, hr, wg, workers, proc, sls, eks>>

\* the two tests of stats, lines 196-201
UBCheck ==
  /\ api.pc = "check"
  /\ api' = IF ~HasKey(api.stats, "hostname")
              THEN [api EXCEPT !.pc = "returned",
                               !.err = "hostname value is empty or invalid"]
            ELSE IF ~HasKey(api.stats, "imagePullStartTime")
              THEN [api EXCEPT !.pc = "returned",
                               !.err = "imagePullStartTime value is empty or invalid"]
            ELSE [api EXCEPT !.pc = "put"]
  /\ UNCHANGED <<request, env, hr, wg, workers, proc, sls, eks>>

\* json.Marshal(bs); a.put(u, "application/json", payload); return
UBPut ==
  /\ api.pc = "put"
  /\ LET err == write(api.response)
     IN  api' = [api EXCEPT !.pc = "returned",
                            !.puts = Append(@, [method |-> "PUT", url |-> api.url,
                                                bodyType |-> "application/json",
                                                payload |-> Payload(api.stats,
                                                                     api.statusMessage)]),
                            !.err = IF err # "nil" THEN "Posting to Build Stats" ELSE "nil"]
  /\ UNCHANGED <<request, env, hr, wg, workers, proc, sls, eks>>

NextAPI == UBMakeURL \/ UBCheck \/ UBPut

SpecAPI == InitAPI /\ [][NextAPI]_vars

(***************************************************************************)
(* The serverless executor (package sls), followed on its own: the config  *)
(* and the answers of the AWS clients are drawn in InitSls.                *)
(***************************************************************************)
\* m[k].(T) succeeds: the key is present and its value has dynamic type T
Has(m, k, type) == k \in DOMAIN m /\ m[k][1] = type

HasAll(m, keys, type) == \A k \in keys : Has(m, k, type)

\* the config of getTestConfig, with the launcher version given
SlsProvider(launcherVersion) ==
  ProviderMap(
    [k \in {"role", "region", "buildRegion", "vpc", "imagePullCredentialsType",
            "environmentType", "computeType", "launcherComputeType",
            "launcherEnvironmentType", "prune", "dlc", "launcherImage",
            "launcherVersion", "queuedTimeout", "privilegedMode", "executorLogs",
            "debugSession"} |->
       CASE k = "role" -> Str("role:123")
         [] k \in {"region", "buildRegion"} -> Str("us-west-2")
         [] k = "vpc" -> <<"map", "vpc-12345">>
         [] k = "imagePullCredentialsType" -> Str("SERVICE_ROLE")
         [] k \in {"environmentType", "launcherEnvironmentType"} -> Str("LINUX_CONTAINER")
         [] k \in {"computeType", "launcherComputeType"} -> Str("BUILD_GENERAL1_SMALL")
         [] k = "launcherImage" -> Str("launcher")
         [] k = "launcherVersion" -> Str(launcherVersion)
         [] k = "queuedTimeout" -> Num(<<5>>)
         [] OTHER -> Bool("false")])

SlsConfig ==
  [k \in {"jobName", "jobId", "buildId", "container", "token", "storeUri", "apiUri",
          "uiUri", "buildTimeout", "isPR"} |->
     CASE k = "jobName" -> Str("deploy")
       [] k = "jobId" -> Num(<<1, 2, 3>>)
       [] k = "buildId" -> Num(<<1, 2, 3, 4>>)
       [] k = "container" -> Str("node:12")
       [] k = "buildTimeout" -> Num(<<2, 0>>)
       [] k = "isPR" -> Bool("false")
       [] OTHER -> Str(k)]

\* p without the key k
Without(p, k) == ProviderMap([j \in DOMAIN p.m \ {k} |-> p.m[j]])

\* the (config, provider) pairs of the checked calls
SlsConfigs ==
  { <<SlsConfig, SlsProvider("v101")>>,
    <<SlsConfig, SlsProvider("v102")>>,
    <<[SlsConfig EXCEPT !["jobName"] = Str("PR-1:deploy"), !["isPR"] = Bool("true")],
      SlsProvider("v101")>>,
    <<SlsConfig, ProviderMap([SlsProvider("v101").m EXCEPT !["buildRegion"] = Str("us-east-1")])>>,
    <<SlsConfig, Without(SlsProvider("v101"), "launcherEnvironmentType")>>,
    <<SlsConfig, Without(SlsProvider("v101"), "launcherVersion")>>,
    <<[k \in DOMAIN SlsConfig \ {"jobName"} |-> SlsConfig[k]], SlsProvider("v101")>>,
    <<[k \in DOMAIN SlsConfig \ {"token"} |-> SlsConfig[k]], SlsProvider("v101")>> }

\* what the S3 and CodeBuild clients answer: list is (Contents, err) of
\* ListObjectsV2; batchGet the result of BatchGetProjects ("nil" for a nil
\* output, else whether Projects is empty) and its err, a failed call
\* reporting no project; the others the err of the call
AwsAnswers ==
  [list : [contents : {<<>>, <<"sdinit-v101">>, <<"sdinit-v100", "sdinit-v101">>},
           err : {"nil", "Access Denied"}],
   batchGet : {[result |-> "nil", err |-> "Batch get project failed"],
               [result |-> "empty", err |-> "Batch get project failed"],
               [result |-> "empty", err |-> "nil"],
               [result |-> "project", err |-> "nil"]},
   create : {"nil", "Role does not exist"},
   update : {"nil", "Role does not exist"},
   startBuild : {"nil", "start build failed"},
   startBuildBatch : {"nil", "start build batch failed"}]

\* p with the key k set to v
With(p, k, v) == ProviderMap([j \in DOMAIN p.m \cup {k} |-> IF j = k THEN v ELSE p.m[j]])

\* the (config, provider) pairs of the checked Stop calls: TestStop sets
\* prune to true, getTestConfig leaves it false
StopConfigs ==
  { <<SlsConfig, With(SlsProvider("v101"), "prune", Bool("true"))>>,
    <<SlsConfig, SlsProvider("v101")>>,
    <<SlsConfig, SlsProvider("v102")>>,
    <<SlsConfig, Without(SlsProvider("v101"), "prune")>>,
    <<SlsConfig, Without(SlsProvider("v101"), "launcherVersion")>>,
    <<[k \in DOMAIN SlsConfig \ {"jobName"} |-> SlsConfig[k]],
      With(SlsProvider("v101"), "prune", Bool("true"))>> }

\* what the clients answer to a Stop: list as above; delete and stop the err
\* of DeleteProject and of StopBuild or StopBuildBatch; ids the Ids of the
\* listed builds or batches; builds the BuildStatus of the Builds that
\* BatchGetBuilds returns, none when it fails or finds no build
StopAnswers ==
  [list : [contents : {<<>>, <<"sdinit-v101">>, <<"sdinit-v100", "sdinit-v101">>},
           err : {"nil", "Access Denied"}],
   delete : {"nil", "Access Denied"},
   ids : {<<>>, <<"build-1">>},
   builds : {<<>>, <<"IN_PROGRESS">>, <<"SUCCEEDED">>},
   stop : {"nil", "stop failed"}]

InitSls ==
  /\ NoRequest
  /\ api = NoAPICall
  /\ eks = NoEksCall
  /\ \/ \E c \in SlsConfigs, a \in AwsAnswers :
          sls = [NoSlsCall EXCEPT !.pc = "start", !.method = "Start",
                                  !.config = c[1], !.provider = c[2], !.aws = a]
     \/ \E c \in StopConfigs, a \in StopAnswers :
          sls = [NoSlsCall EXCEPT !.pc = "start", !.method = "Stop",
                                  !.config = c[1], !.provider = c[2], !.aws = a]

\* strings.Split(region, "-")
RegionItems(region) ==
  CASE region = "us-west-2" -> <<"us", "west", "2">>
    [] region = "us-east-1" -> <<"us", "east", "1">>
    [] OTHER -> <<region>>

awsRegionMap(name) ==
  CASE name = "north" -> "n" [] name = "west" -> "w" [] name = "northeast" -> "ne"
    [] name = "east" -> "e" [] name = "south" -> "s" [] name = "central" -> "c"
    [] name = "southeast" -> "se" [] OTHER -> ""

\* items[0] + awsRegionMap[items[1]] + items[2]; fewer than three items panic
getRegionShortName(region) ==
  LET items == RegionItems(region)
  IN  <<items[1], awsRegionMap(items[2]), items[3]>>

\* os.Getenv("SD_SLS_BUILD_BUCKET"), as the name and the region short name
BuildBucket == << <<"test-bucket-123">>, <<"us", "w", "2">> >>

\* strings.Replace(bucket, old, new, 1)
ReplaceFirst(bucket, old, new) ==
  [i \in 1..Len(bucket) |->
     IF bucket[i] = old /\ \A j \in 1..(i - 1) : bucket[j] # old THEN new ELSE bucket[i]]

getBucketName(region, buildRegion) ==
  IF buildRegion = "" \/ region = buildRegion THEN BuildBucket
  ELSE ReplaceFirst(BuildBucket, getRegionShortName(region), getRegionShortName(buildRegion))

\* a check that reads the listing whether or not the call failed
checkLauncherUpdateAnyList(list, launcherVersion) ==
  ~\E i \in 1..Len(list.contents) : list.contents[i] = "sdinit-" \o launcherVersion

\* launcherUpdate is true unless the listing succeeded and holds the key
\* sdinit-<launcherVersion>
checkLauncherUpdate(list, launcherVersion) ==
  IF list.err # "nil" THEN TRUE
  ELSE ~\E i \in 1..Len(list.contents) : list.contents[i] = "sdinit-" \o launcherVersion

\* strings.Replace(jobName, ":", "-", 1)
ReplaceColon(jobName) == IF jobName = "PR-1:deploy" THEN "PR-1-deploy" ELSE jobName

\* jobName + "-" + fmt.Sprint(jobID)
getProjectName(config) ==
  << IF config["isPR"] = Bool("true") THEN ReplaceColon(config["jobName"][2])
     ELSE config["jobName"][2],
     Int64(config["jobId"][2]) >>

SlsPanic == [sls EXCEPT !.pc = "panicked", !.panicked = TRUE]

\* Start, lines 366-371: the provider, the launcher version and the bucket
SlsStartPrepare ==
  /\ sls.pc = "start" /\ sls.method = "Start"
  /\ LET p == sls.provider.m
         ok == /\ sls.provider.kind = "map"
               /\ HasAll(p, {"launcherVersion", "region", "buildRegion"}, "str")
               /\ (p["buildRegion"][2] # "" /\ p["region"][2] # p["buildRegion"][2]) =>
                    /\ Len(RegionItems(p["region"][2])) >= 3
                    /\ Len(RegionItems(p["buildRegion"][2])) >= 3
     IN  sls' = IF ~ok THEN SlsPanic
                ELSE [sls EXCEPT !.pc = "checkLauncher",
                                 !.bucket = getBucketName(p["region"][2], p["buildRegion"][2])]
  /\ UNCHANGED <<request, env, hr, wg, workers, proc, api, eks>>

\* launcherUpdate := checkLauncherUpdate(e.serviceClient, launcherVersion, bucket)
SlsCheckLauncher ==
  /\ sls.pc = "checkLauncher"
  /\ sls' = [sls EXCEPT
       !.pc = IF sls.method = "Start" THEN "batchGet" ELSE "stop",
       !.calls = Append(@, [op |-> "ListObjectsV2", arg |-> sls.bucket]),
       !.launcherUpdate =
          checkLauncherUpdate(sls.aws.list, sls.provider.m["launcherVersion"][2])]
  /\ UNCHANGED <<request, env, hr, wg, workers, proc, api, eks>>

\* strings.HasPrefix(container, "aws/codebuild/")
HasCodeBuildPrefix(container) == container = Str("aws/codebuild/standard:5.0")

\* getRequestObject changes the provider before it builds the request: an ARM
\* environment sets launcherEnvironmentType, a CodeBuild image sets
\* imagePullCredentialsType
RequestProvider(config, p) ==
  LET arm == Get(p, "environmentType") = Str("ARM_CONTAINER")
      cb == HasCodeBuildPrefix(Get(config, "container"))
  IN  [k \in DOMAIN p \cup (IF arm THEN {"launcherEnvironmentType"} ELSE {})
                      \cup (IF cb THEN {"imagePullCredentialsType"} ELSE {}) |->
         IF k = "launcherEnvironmentType" /\ arm THEN Str("ARM_CONTAINER")
         ELSE IF k = "imagePullCredentialsType" /\ cb THEN Str("CODEBUILD")
         ELSE p[k]]

\* the type assertions of getRequestObject and getBuildSpec
RequestOK(config, p) ==
  /\ Has(p, "environmentType", "str")
  /\ HasAll(RequestProvider(config, p),
            {"launcherEnvironmentType", "launcherImage", "launcherComputeType", "role",
             "computeType", "imagePullCredentialsType"}, "str")
  /\ Has(p, "vpc", "map") /\ Has(p, "queuedTimeout", "num")
  /\ HasAll(p, {"privilegedMode", "dlc"}, "bool")
  /\ Has(config, "buildTimeout", "num") /\ Has(config, "container", "str")

\* Start, lines 375-387: the project name, BatchGetProjects, the request
SlsBatchGet ==
  /\ sls.pc = "batchGet"
  /\ LET nameOK == /\ Has(sls.config, "jobName", "str") /\ Has(sls.config, "isPR", "bool")
                   /\ Has(sls.config, "jobId", "num")
         project == getProjectName(sls.config)
         called == [sls EXCEPT !.project = project,
                               !.calls = Append(@, [op |-> "BatchGetProjects",
                                                    arg |-> project])]
     IN  sls' = IF ~nameOK THEN SlsPanic
                ELSE IF ~RequestOK(sls.config, sls.provider.m)
                  THEN [called EXCEPT !.pc = "panicked", !.panicked = TRUE]
                ELSE [called EXCEPT !.pc = "project",
                                    !.provider = ProviderMap(
                                       RequestProvider(sls.config, sls.provider.m))]
  /\ UNCHANGED <<request, env, hr, wg, workers, proc, api, eks>>

\* an existence test that trusts the err of BatchGetProjects alone
ProjectMissingByErr(batchGet) == batchGet.err # "nil"

\* if batchResult == nil || len(batchResult.Projects) == 0
ProjectMissing(batchGet) == batchGet.result = "nil" \/ batchGet.result = "empty"

projectArn(project) == <<"arn:aws:codebuild:project//">> \o project

\* Start, lines 391-407: CreateProject or UpdateProject
SlsProject ==
  /\ sls.pc = "project"
  /\ LET op == IF ProjectMissing(sls.aws.batchGet) THEN "CreateProject" ELSE "UpdateProject"
         err == IF op = "CreateProject" THEN sls.aws.create ELSE sls.aws.update
         called == [sls EXCEPT !.calls = Append(@, [op |-> op, arg |-> sls.project])]
     IN  sls' = IF err # "nil"
                  THEN [called EXCEPT !.pc = "returned",
                          !.result = [handle |-> <<>>,
                                      err |-> <<"Error-" \o op \o ": ", err>>]]
                ELSE [called EXCEPT !.pc = "build", !.projectArn = projectArn(sls.project)]
  /\ UNCHANGED <<request, env, hr, wg, workers, proc, api, eks>>

\* a Start that always starts the single build
BuildOpSingle(launcherUpdate) == "StartBuild"

\* if launcherUpdate { startBuildBatch } else { startBuild }
BuildOp(launcherUpdate) == IF launcherUpdate THEN "StartBuildBatch" ELSE "StartBuild"

\* Start, lines 411-428: getEnvVars, then the batch or the single build
SlsBuild ==
  /\ sls.pc = "build"
  /\ LET p == sls.provider.m
         ok == /\ HasAll(sls.config, {"token", "apiUri", "storeUri", "uiUri"}, "str")
               /\ HasAll(sls.config, {"buildTimeout", "buildId"}, "num")
               /\ Has(p, "role", "str")
               /\ HasAll(p, {"executorLogs", "debugSession"}, "bool")
         op == BuildOp(sls.launcherUpdate)
         err == IF op = "StartBuildBatch" THEN sls.aws.startBuildBatch
                ELSE sls.aws.startBuild
         called == [sls EXCEPT !.calls = Append(@, [op |-> op, arg |-> sls.project])]
     IN  sls' = IF ~ok THEN SlsPanic
                ELSE IF err # "nil"
                  THEN [called EXCEPT !.pc = "returned",
                          !.result = [handle |-> <<>>,
                                      err |-> <<"Got error building project: ", err>>]]
                ELSE [called EXCEPT !.pc = "returned",
                        !.result = [handle |-> sls.projectArn, err |-> <<"nil">>]]
  /\ UNCHANGED <<request, env, hr, wg, workers, proc, api, eks>>

\* a Stop that never prunes
PrunesNever(provider) == FALSE

\* if provider["prune"].(bool)
Prunes(provider) == provider["prune"] = Bool("true")

\* Stop, lines 433-442: the provider, the project name, prune, the bucket
SlsStopPrepare ==
  /\ sls.pc = "start" /\ sls.method = "Stop"
  /\ LET p == sls.provider.m
         nameOK == /\ sls.provider.kind = "map"
                   /\ Has(sls.config, "jobName", "str") /\ Has(sls.config, "isPR", "bool")
                   /\ Has(sls.config, "jobId", "num")
                   /\ Has(p, "prune", "bool")
         bucketOK == /\ HasAll(p, {"region", "buildRegion", "launcherVersion"}, "str")
                     /\ (p["buildRegion"][2] # "" /\ p["region"][2] # p["buildRegion"][2]) =>
                          /\ Len(RegionItems(p["region"][2])) >= 3
                          /\ Len(RegionItems(p["buildRegion"][2])) >= 3
     IN  sls' = IF ~nameOK THEN SlsPanic
                ELSE IF Prunes(p)
                  THEN [sls EXCEPT !.pc = "delete", !.project = getProjectName(sls.config)]
                ELSE IF ~bucketOK
                  THEN [SlsPanic EXCEPT !.project = getProjectName(sls.config)]
                ELSE [sls EXCEPT !.pc = "checkLauncher",
                                 !.project = getProjectName(sls.config),
                                 !.bucket = getBucketName(p["region"][2], p["buildRegion"][2])]
  /\ UNCHANGED <<request, env, hr, wg, workers, proc, api, eks>>

\* deleteProject
SlsDelete ==
  /\ sls.pc = "delete"
  /\ sls' = [sls EXCEPT
       !.pc = "returned",
       !.calls = Append(@, [op |-> "DeleteProject", arg |-> sls.project]),
       !.result = [handle |-> <<>>,
                   err |-> IF sls.aws.delete # "nil"
                             THEN <<"Got error deleting project: ", sls.aws.delete>>
                           ELSE <<"nil">>]]
  /\ UNCHANGED <<request, env, hr, wg, workers, proc, api, eks>>

\* stopBuildBatch and stopBuild: the list call, BatchGetBuilds on the first
\* id, the stop call when that build is IN_PROGRESS; Builds[0] of an empty
\* Builds panics
SlsStopBuilds ==
  /\ sls.pc = "stop"
  /\ LET batch == sls.launcherUpdate
         listed == [sls EXCEPT !.calls = Append(@,
                      [op |-> IF batch THEN "ListBuildBatchesForProject"
                              ELSE "ListBuildsForProject",
                       arg |-> sls.project])]
         got == [listed EXCEPT !.calls = Append(@,
                      [op |-> "BatchGetBuilds", arg |-> sls.aws.ids[1]])]
         stopped == [got EXCEPT !.calls = Append(@,
                      [op |-> IF batch THEN "StopBuildBatch" ELSE "StopBuild",
                       arg |-> sls.aws.ids[1]])]
         nil == [handle |-> <<>>, err |-> <<"nil">>]
     IN  sls' = IF Len(sls.aws.ids) = 0
                  THEN [listed EXCEPT !.pc = "returned", !.result = nil]
                ELSE IF Len(sls.aws.builds) = 0
                  THEN [got EXCEPT !.pc = "panicked", !.panicked = TRUE]
                ELSE IF sls.aws.builds[1] # "IN_PROGRESS"
                  THEN [got EXCEPT !.pc = "returned", !.result = nil]
                ELSE IF sls.aws.stop # "nil"
                  THEN [stopped EXCEPT !.pc = "returned",
                          !.result = [handle |-> <<>>,
                                      err |-> <<"Got error stopping build: ",
                                                sls.aws.stop>>]]
                ELSE [stopped EXCEPT !.pc = "returned", !.result = nil]
  /\ UNCHANGED <<request, env, hr, wg, workers, proc, api, eks>>

NextSls ==
  \/ SlsStartPrepare
  \/ SlsStopPrepare
  \/ SlsDelete
  \/ SlsStopBuilds
  \/ SlsCheckLauncher
  \/ SlsBatchGet
  \/ SlsProject
  \/ SlsBuild

SpecSls == InitSls /\ [][NextSls]_vars

(***************************************************************************)
(* The EKS executor (eks.go), followed on its own: one executor, called by *)
(* two goroutines that each run Start up to MaxCalls times.  The config    *)
(* and the answers of the EKS and Kubernetes clients are drawn in InitEks. *)
(***************************************************************************)
\* the Start calls of one goroutine
MaxCalls == 2

Goroutines == {1, 2}

NilHandle == <<>>

GoInt(n) == <<"int", n>>

\* a config holding every key that Start and getPodObject assert
EksConfig ==
  [k \in {"clusterName", "namespace", "buildId", "prefix", "serviceAccountName",
          "container", "privilegedMode", "cpuLimit", "memoryLimit", "pipelineId",
          "token", "apiUri", "storeUri", "buildTimeout", "uiUri", "launcherImage",
          "launcherVersion"} |->
     CASE k = "clusterName" -> Str("test-cluster-1")
       [] k = "namespace" -> Str("sd-builds")
       [] k = "buildId" -> GoInt(1234)
       [] k = "privilegedMode" -> Bool("false")
       [] OTHER -> Str(k)]

\* the configs of the checked calls: complete, with an empty cluster name,
\* without a cluster name, without a namespace, and with the buildId a
\* json.Number as ProcessMessage decodes it
EksConfigs ==
  { EksConfig,
    [EksConfig EXCEPT !["clusterName"] = Str("")],
    [k \in DOMAIN EksConfig \ {"clusterName"} |-> EksConfig[k]],
    [k \in DOMAIN EksConfig \ {"namespace"} |-> EksConfig[k]],
    [EksConfig EXCEPT !["buildId"] = Num(<<1, 2, 3, 4>>)] }

\* what the clients answer: describe is the err of DescribeCluster or
\* "no cluster" for a nil output; ca the err of decoding the certificate;
\* clientset the err of kubernetes.NewForConfig; create the err of Pods.Create
EksAnswers ==
  [describe : {"nil", "DescribeCluster method failure", "no cluster"},
   ca : {"nil", "illegal base64 data"},
   clientset : {"nil", "host must be a URL"},
   create : {"nil", "pods is forbidden"}]

NoResult == [handle |-> NilHandle, err |-> <<>>]

NewGoroutine ==
  [pc |-> "idle", n |-> 0, saw |-> NilHandle, contacted |-> FALSE, built |-> NilHandle,
   ret |-> NoResult, out |-> [hostname |-> "", err |-> <<>>]]

InitEks ==
  /\ NoRequest
  /\ api = NoAPICall
  /\ sls = NoSlsCall
  /\ \E c \in EksConfigs, a \in EksAnswers :
       eks = [NoEksCall EXCEPT !.config = c, !.aws = a,
                               !.g = [t \in Goroutines |-> NewGoroutine]]

\* a newClientSet that never finds a cached clientset
CachedNever(k8sClientset) == FALSE

\* if e.k8sClientset != nil
Cached(k8sClientset) == k8sClientset # NilHandle

\* newClientSet returns to Start, which goes on with its result
Returns(gr, handle, err) ==
  [gr EXCEPT !.pc = "use", !.ret = [handle |-> handle, err |-> err]]

\* Start line 235 and newClientSet lines 101-103
EksEnter(t) ==
  /\ eks.g[t].pc \in {"idle", "done"} /\ eks.g[t].n < MaxCalls
  /\ LET entered == [eks.g[t] EXCEPT !.n = @ + 1, !.saw = eks.k8sClientset,
                                     !.contacted = FALSE, !.built = NilHandle,
                                     !.ret = NoResult]
     IN  eks' = [eks EXCEPT !.g[t] =
                   IF Cached(eks.k8sClientset)
                     THEN Returns(entered, eks.k8sClientset, <<"nil">>)
                   ELSE [entered EXCEPT !.pc = "describe"]]
  /\ UNCHANGED <<request, env, hr, wg, workers, proc, api, sls>>

\* newClientSet lines 105-108 and describeCluster
EksDescribe(t) ==
  /\ eks.g[t].pc = "describe"
  /\ LET gr == eks.g[t]
         prefix == "Error calling DescribeCluster:"
     IN  IF ~Has(eks.config, "clusterName", "str")
           THEN eks' = [eks EXCEPT !.g[t].pc = "panicked"]
         ELSE IF eks.config["clusterName"][2] = ""
           THEN eks' = [eks EXCEPT !.g[t] =
                          Returns(gr, NilHandle, <<prefix, "cluster name is empty">>)]
         ELSE IF eks.aws.describe = "no cluster"
           THEN eks' = [eks EXCEPT !.describes = @ + 1,
                          !.g[t] = Returns([gr EXCEPT !.contacted = TRUE], NilHandle,
                                           <<prefix, "cluster does not exist">>)]
         ELSE IF eks.aws.describe # "nil"
           THEN eks' = [eks EXCEPT !.describes = @ + 1,
                          !.g[t] = Returns([gr EXCEPT !.contacted = TRUE], NilHandle,
                                           <<prefix, eks.aws.describe>>)]
         ELSE eks' = [eks EXCEPT !.describes = @ + 1,
                        !.g[t] = [gr EXCEPT !.contacted = TRUE, !.pc = "build"]]
  /\ UNCHANGED <<request, env, hr, wg, workers, proc, api, sls>>

\* newClientSet lines 115-131: the certificate and kubernetes.NewForConfig
EksBuild(t) ==
  /\ eks.g[t].pc = "build"
  /\ LET gr == eks.g[t]
     IN  eks' = [eks EXCEPT !.g[t] =
           IF eks.aws.ca # "nil" THEN Returns(gr, NilHandle, <<eks.aws.ca>>)
           ELSE IF eks.aws.clientset # "nil"
             THEN Returns(gr, NilHandle, <<"Error creating clientset: ", eks.aws.clientset>>)
           ELSE [gr EXCEPT !.pc = "write", !.built = <<"clientset", t, gr.n>>]]
  /\ UNCHANGED <<request, env, hr, wg, workers, proc, api, sls>>

\* e.k8sClientset = &k8sClientset{client: clientset}
EksWrite(t) ==
  /\ eks.g[t].pc = "write"
  /\ eks' = [eks EXCEPT !.k8sClientset = eks.g[t].built,
                         !.writes = Append(@, eks.g[t].built),
                         !.g[t].pc = "return"]
  /\ UNCHANGED <<request, env, hr, wg, workers, proc, api, sls>>

\* return e.k8sClientset, nil: the field is read without synchronisation, so
\* the value returned is the one just written or the one another goroutine
\* wrote since
EksReturn(t) ==
  /\ eks.g[t].pc = "return"
  /\ \E h \in {eks.g[t].built, eks.k8sClientset} :
       eks' = [eks EXCEPT !.g[t] = Returns(eks.g[t], h, <<"nil">>)]
  /\ UNCHANGED <<request, env, hr, wg, workers, proc, api, sls>>

\* the type assertions of Start and getPodObject
PodOK(config) ==
  /\ Has(config, "buildId", "int") /\ Has(config, "privilegedMode", "bool")
  /\ HasAll(config, {"prefix", "serviceAccountName", "container", "cpuLimit",
                     "memoryLimit", "pipelineId", "token", "apiUri", "storeUri",
                     "buildTimeout", "uiUri", "launcherImage", "launcherVersion"}, "str")

\* Start lines 235-259: the err of newClientSet is dropped, the namespace is
\* asserted, the clientset is dereferenced, the pod is built and created
EksUse(t) ==
  /\ eks.g[t].pc = "use"
  /\ LET gr == eks.g[t]
     IN  eks' = [eks EXCEPT !.g[t] =
           IF ~Has(eks.config, "namespace", "str") THEN [gr EXCEPT !.pc = "panicked"]
           ELSE IF gr.ret.handle = NilHandle THEN [gr EXCEPT !.pc = "panicked"]
           ELSE IF ~PodOK(eks.config) THEN [gr EXCEPT !.pc = "panicked"]
           ELSE IF eks.aws.create # "nil"
             THEN [gr EXCEPT !.pc = "done",
                     !.out = [hostname |-> "",
                              err |-> <<"Error creating pod ", eks.aws.create>>]]
           ELSE [gr EXCEPT !.pc = "done",
                   !.out = [hostname |-> "node", err |-> <<"nil">>]]]
  /\ UNCHANGED <<request, env, hr, wg, workers, proc, api, sls>>

NextEks ==
  \/ \E t \in Goroutines : EksEnter(t)
  \/ \E t \in Goroutines : EksDescribe(t)
  \/ \E t \in Goroutines : EksBuild(t)
  \/ \E t \in Goroutines : EksWrite(t)
  \/ \E t \in Goroutines : EksReturn(t)
  \/ \E t \in Goroutines : EksUse(t)

SpecEks == InitEks /\ [][NextEks]_vars

(***************************************************************************)
(* Properties.                                                             *)
(***************************************************************************)
Launched(k) == { w \in 1..Len(workers) : workers[w].part = k }

Signalled(k) == { w \in Launched(k) : workers[w].dones > 0 }

\* the dispatcher has proceeded past partition k
Passed(k) == k \in DOMAIN request \ hr.pending /\ ~(hr.cur = k /\ hr.pc = "launch")

Panicked(w) == workers[w].panicking \/ workers[w].recovered

Logged(w, line) == \E n \in 1..Len(workers[w].logs) : workers[w].logs[n] = line

ExecutorCalls(w) ==
  SelectSeq(workers[w].calls, LAMBDA c : c.method \in {"Start", "Stop"})

RECURSIVE SumRecords(_)
SumRecords(ks) ==
  IF ks = {} THEN 0
  ELSE LET k == CHOOSE x \in ks : TRUE IN Len(request[k]) + SumRecords(ks \ {k})

\* C1: the dispatcher is past a partition of N records only when N of its
\* workers have signalled completion, and workers exist only for the current
\* partition and the partitions it is past.
C1_PartitionBarrier ==
  /\ \A k \in DOMAIN request : Passed(k) => Cardinality(Signalled(k)) = Len(request[k])
  /\ \A k \in hr.pending : Launched(k) = {}

C1_Witness ==
  \E k \in DOMAIN request :
    /\ Passed(k) /\ hr.pc = "launch" /\ Launched(hr.cur) # {}
    /\ \E w, v \in Launched(k) :
         Panicked(w) /\ Logged(v, "start build successful")

\* C3: for every record index i of a partition the dispatcher has launched,
\* exactly one worker carries index i, and it carries record i's value.
C3_OneWorkerPerRecord ==
  \A k \in DOMAIN request :
    LET n == IF k \in hr.pending THEN 0
             ELSE IF hr.cur = k /\ hr.pc = "launch" THEN hr.i
             ELSE Len(request[k])
    IN  /\ \A i \in 0..(n - 1) :
             Cardinality({ w \in Launched(k) : workers[w].id = i }) = 1
        /\ \A w \in Launched(k) :
             /\ workers[w].id \in 0..(n - 1)
             /\ workers[w].value = request[k][workers[w].id + 1]

C3_Witness ==
  /\ hr.pc = "returned"
  /\ Cardinality(DOMAIN request) >= 2
  /\ Len(workers) >= 3
  /\ \E k \in DOMAIN request : Len(request[k]) >= 2 /\ request[k][1] # request[k][2]

\* C4: HandleRequest returns "Finished processing messages: <total>" and a
\* nil error, total being the sum of the record counts of all partitions.
C4_Summary ==
  hr.pc = "returned" =>
    hr.response = [text |-> "Finished processing messages: ",
                   total |-> SumRecords(DOMAIN request), err |-> "nil"]

C4_Witness ==
  /\ hr.pc = "returned"
  /\ Cardinality(DOMAIN request) >= 2
  /\ hr.response.total >= 3
  /\ \E w \in 1..Len(workers) : Panicked(w)
  /\ \E w \in 1..Len(workers) : Logged(w, "start build successful")

\* the worker has left its function body or the process
Exited(w) == workers[w].pc \in {"deferRecover", "ended", "fatal"}

\* C2: a worker signals completion exactly once on every exit path, the
\* counter of a partition is never negative, and it is zero once all the
\* workers of the partition have ended.
C2_SignalsExactlyOnce ==
  /\ \A w \in 1..Len(workers) :
       /\ workers[w].dones <= 1
       /\ Exited(w) => workers[w].dones = 1
  /\ \A k \in DOMAIN request :
       /\ wg[k] >= 0
       /\ (Cardinality(Launched(k)) = Len(request[k]) /\ \A w \in Launched(k) : Exited(w))
            => wg[k] = 0

\* C5: when HandleRequest has returned, every record has had its worker and
\* every worker has ended, its calls and its failure handling included.
C5_AllEndedAtReturn ==
  hr.pc = "returned" =>
    /\ \A k \in DOMAIN request : Cardinality(Launched(k)) = Len(request[k])
    /\ \A w \in 1..Len(workers) : workers[w].pc = "ended" /\ ~workers[w].panicking

\* C6: a panic of a worker never ends the process (only log.Fatal does), and
\* when HandleRequest has returned beside a panicked worker, every other worker
\* has run its body to the end and the summary counts every record.
C6_PanicIsolation ==
  /\ proc # "crashed"
  /\ proc = "exited" => \E w \in 1..Len(workers) : workers[w].pc = "fatal"
  /\ \A w \in 1..Len(workers) :
       (Panicked(w) /\ hr.pc = "returned") =>
         /\ hr.response.total = SumRecords(DOMAIN request)
         /\ \A k \in DOMAIN request : Cardinality(Launched(k)) = Len(request[k])
         /\ \A v \in 1..Len(workers) : v # w => workers[v].dones = 1

C6_Witness ==
  /\ hr.pc = "returned"
  /\ \E w, v, u \in 1..Len(workers) :
       /\ workers[w].recovered
       /\ workers[v].part = workers[w].part /\ workers[u].part # workers[w].part
       /\ workers[v].pc = "ended" /\ Logged(v, "start build successful")
       /\ workers[u].pc = "ended" /\ Logged(u, "start build successful")

\* GetExecutor has been applied by worker w
Resolved(w) ==
  /\ workers[w].job # "" /\ workers[w].executorType # ""
  /\ workers[w].pc \notin {"start", "dispatch"}

\* C7: for a message whose executorType resolves to executor E, job "start"
\* makes exactly the call E.Start(buildConfig), job "stop" exactly the call
\* E.Stop(buildConfig), and any other job makes no executor call and is not
\* logged as a failure.
C7_JobDispatch ==
  \A w \in 1..Len(workers) :
    (Resolved(w) /\ workers[w].executor # NilExecutor) =>
      LET wk == workers[w]
      IN  CASE wk.job = "start" -> ExecutorCalls(w) = << Call(wk.executor, "Start", wk) >>
            [] wk.job = "stop" -> ExecutorCalls(w) = << Call(wk.executor, "Stop", wk) >>
            [] OTHER -> /\ ExecutorCalls(w) = <<>>
                        /\ ~Logged(w, "Failed to " \o wk.job \o " build")

\* C8: every executor method invoked for a message is invoked on the
\* registered executor named by the message's executorType.
C8_NamedExecutorOnly ==
  \A w \in 1..Len(workers) :
    \A n \in 1..Len(ExecutorCalls(w)) :
      /\ ExecutorCalls(w)[n].exec.name = workers[w].value.executorType
      /\ ExecutorCalls(w)[n].exec.name \in {"eks", "sls"}

C8_Witness ==
  \E w \in 1..Len(workers) :
    /\ workers[w].value.executorType = "sls" /\ workers[w].value.job = "stop"
    /\ workers[w].pc = "ended"
    /\ Len(ExecutorCalls(w)) = 1
    /\ ExecutorCalls(w)[1].exec.name = "sls" /\ ExecutorCalls(w)[1].method = "Stop"

\* C9: GetExecutor(name, region) is the eks executor for "eks", the sls
\* executor for "sls", and nil for every other name, "EKS" included.
C9_GetExecutor ==
  \A w \in 1..Len(workers) :
    Resolved(w) =>
      LET wk == workers[w]
      IN  /\ wk.executorType = "eks" => wk.executor = [name |-> "eks", region |-> wk.buildRegion]
          /\ wk.executorType = "sls" => wk.executor = [name |-> "sls", region |-> wk.buildRegion]
          /\ wk.executorType \notin {"eks", "sls"} => wk.executor = NilExecutor

C9_Witness ==
  \E a, b \in 1..Len(workers) :
    /\ Resolved(a) /\ workers[a].executorType = "sls" /\ workers[a].executor.name = "sls"
    /\ Resolved(b) /\ workers[b].executorType = "EKS" /\ workers[b].executor = NilExecutor

\* C10: a record with an unresolvable executorType and job "start" or "stop"
\* leads to no executor call and no panic, and its worker signals completion.
C10_UnknownExecutorNoOp ==
  \A w \in 1..Len(workers) :
    (Resolved(w) /\ workers[w].executor = NilExecutor /\ workers[w].job \in {"start", "stop"}) =>
      /\ ExecutorCalls(w) = <<>>
      /\ ~Panicked(w)
      /\ workers[w].pc = "ended" => workers[w].dones = 1

\* the payload of worker w is not valid base64 or not valid JSON
Malformed(w) == workers[w].value.b64 # "ok" \/ workers[w].value.json # "ok"

\* C11: a record whose payload is not valid base64 or not valid JSON is a
\* no-op for that message only: no executor is invoked for it, its worker
\* signals completion, the process keeps running so that the other workers
\* finish, and HandleRequest returns the summary.
C11_MalformedIsNoOp ==
  \A w \in 1..Len(workers) :
    (Malformed(w) /\ workers[w].pc # "start") =>
      /\ ExecutorCalls(w) = <<>>
      /\ workers[w].pc # "fatal" /\ proc = "running"
      /\ Exited(w) => workers[w].dones = 1

\* C12: no failure inside a worker ends the process: whatever a worker
\* meets, the process keeps running until HandleRequest has returned.
C12_WorkerNeverEndsProcess ==
  (\E w \in 1..Len(workers) : workers[w].pc # "start") => proc = "running"

\* worker w has decoded its message and applied the defaults
Decoded(w) == workers[w].pc \notin {"start", "fatal"} /\ DOMAIN workers[w].buildConfig # {}

\* C13: after defaulting, every top-level buildConfig key and every provider
\* key present in the message holds the message's value, whatever it is.
C13_DefaultsKeepMessageKeys ==
  \A w \in 1..Len(workers) :
    Decoded(w) =>
      LET wk == workers[w]
      IN  /\ \A k \in DOMAIN wk.value.buildConfig :
               wk.buildConfig[k] = wk.value.buildConfig[k]
          /\ \A k \in DOMAIN wk.value.provider.m :
               wk.provider[k] = wk.value.provider.m[k]

RECURSIVE Decimal(_)
\* the decimal text of a natural number, as a JSON document writes it
Decimal(n) == IF n < 10 THEN <<n>> ELSE Append(Decimal(n \div 10), n % 10)

UpdateBuildCalls(w) == SelectSeq(workers[w].calls, LAMBDA c : c.method = "UpdateBuild")

C15_UpdateBuildOnlyAfterStart ==
  \A w \in 1..Len(workers) :
    LET wk == workers[w]
        updates == UpdateBuildCalls(w)
    IN  /\ Len(updates) <= 1
        /\ Len(updates) = 1 =>
             /\ wk.job = "start"
             /\ Len(ExecutorCalls(w)) = 1 /\ ExecutorCalls(w)[1].method = "Start"
             /\ wk.answer.start.err = "nil" /\ wk.err = "nil"
             /\ wk.answer.start.hostname # ""
             /\ updates[1].config.stats["hostname"] = Str(wk.answer.start.hostname)
             /\ "imagePullStartTime" \in DOMAIN updates[1].config.stats

C15_Witness ==
  \E w \in 1..Len(workers) :
    /\ workers[w].pc = "ended" /\ workers[w].job = "start"
    /\ Len(UpdateBuildCalls(w)) = 1
    /\ UpdateBuildCalls(w)[1].config.stats["hostname"] = Str("node123")

\* C16: when UpdateBuild returns an error, the error is logged, UpdateBuild
\* is not called again, the worker ends its body without a panic and signals
\* completion, and HandleRequest returns the usual summary and a nil error.
C16_UpdateBuildErrorLoggedOnly ==
  \A w \in 1..Len(workers) :
    (UpdateBuildCalls(w) # <<>> /\ workers[w].answer.update # "nil") =>
      /\ Len(UpdateBuildCalls(w)) = 1
      /\ Logged(w, "Updating build stats")
      /\ ~Panicked(w)
      /\ workers[w].pc = "ended" => workers[w].dones = 1
      /\ hr.pc = "returned" => hr.response = Summary(SumRecords(DOMAIN request))

C16_Witness ==
  /\ hr.pc = "returned" /\ hr.response.total = 1
  /\ \E w \in 1..Len(workers) :
       /\ workers[w].pc = "ended" /\ workers[w].answer.update = "api"
       /\ Len(UpdateBuildCalls(w)) = 1

\* C17: when the executor's Start or Stop returns an error, the error is
\* logged, the executor is not called again for that message, the worker
\* signals completion, and when HandleRequest returns every other worker of
\* the batch has been launched and has finished.
C17_ExecutorErrorNotRetried ==
  \A w \in 1..Len(workers) :
    (ExecutorCalls(w) # <<>> /\ workers[w].pc \notin {"start", "dispatch"}
       /\ workers[w].err = "executor") =>
      /\ Len(ExecutorCalls(w)) = 1
      /\ Logged(w, "Failed to " \o workers[w].job \o " build")
      /\ workers[w].pc = "ended" => workers[w].dones = 1
      /\ hr.pc = "returned" =>
           /\ \A k \in DOMAIN request : Cardinality(Launched(k)) = Len(request[k])
           /\ \A v \in 1..Len(workers) : workers[v].dones = 1

C17_Witness ==
  /\ hr.pc = "returned"
  /\ \E w, v \in 1..Len(workers) :
       /\ workers[w].pc = "ended" /\ workers[w].err = "executor"
       /\ Logged(w, "Failed to start build")
       /\ workers[v].pc = "ended" /\ Logged(v, "start build successful")
       /\ Len(UpdateBuildCalls(v)) = 1

\* C18: a message whose job or executorType is empty makes no call at all
\* (no executor is resolved or invoked, no API client is built, UpdateBuild
\* is not called), raises no panic, and its worker signals completion.
C18_EmptyFieldsSkipped ==
  \A w \in 1..Len(workers) :
    ((workers[w].value.job = "" \/ workers[w].value.executorType = "")
       /\ workers[w].value.json = "ok" /\ workers[w].pc # "start") =>
      /\ workers[w].calls = <<>> /\ workers[w].executor = NilExecutor
      /\ ~Panicked(w)
      /\ workers[w].pc = "ended" => workers[w].dones = 1

\* C19: UpdateBuild called with stats that lack a non-empty hostname or lack
\* imagePullStartTime returns an error and sends no PUT; with both it sends
\* one PUT to builds/<buildID> and returns nil exactly on a 2xx response.
C19_UpdateBuildContract ==
  (api.pc = "returned" /\ api.baseURL = "http://fakeurl") =>
    IF HasKeyNonEmpty(api.stats, "hostname") /\ HasKey(api.stats, "imagePullStartTime")
      THEN /\ Len(api.puts) = 1
           /\ api.puts[1].method = "PUT"
           /\ api.puts[1].url = <<"http://fakeurl", "v4", "builds", api.buildID>>
           /\ api.err = "nil" <=> api.response \in {200, 204}
      ELSE api.puts = <<>> /\ api.err # "nil"

SlsOps == { sls.calls[n].op : n \in 1..Len(sls.calls) }

SlsCount(op) == Cardinality({ n \in 1..Len(sls.calls) : sls.calls[n].op = op })

ProjectReady ==
  IF ProjectMissing(sls.aws.batchGet) THEN sls.aws.create = "nil" ELSE sls.aws.update = "nil"

\* C21: after the project is created or updated, Start starts exactly one
\* build, StartBuildBatch when a launcher update is required and StartBuild
\* otherwise, never both; it returns the project ARN with a nil error only if
\* that call succeeded, and otherwise an empty handle and an error prefixed
\* "Got error building project: ".
C21_OneBuildStarted ==
  sls.method = "Start" =>
    LET batch == "sdinit-" \o sls.provider.m["launcherVersion"][2]
                   \notin { sls.aws.list.contents[i] : i \in 1..Len(sls.aws.list.contents) }
                 \/ sls.aws.list.err # "nil"
        op == IF batch THEN "StartBuildBatch" ELSE "StartBuild"
        other == IF batch THEN "StartBuild" ELSE "StartBuildBatch"
        err == IF batch THEN sls.aws.startBuildBatch ELSE sls.aws.startBuild
    IN  /\ SlsCount("StartBuild") + SlsCount("StartBuildBatch") <= 1
        /\ SlsOps \cap {"StartBuild", "StartBuildBatch"} # {} =>
             SlsOps \cap {"CreateProject", "UpdateProject"} # {} /\ ProjectReady
        /\ (sls.pc = "returned" /\ ProjectReady) =>
             /\ SlsCount(op) = 1 /\ SlsCount(other) = 0
             /\ sls.calls[Len(sls.calls)].op = op
             /\ sls.result = IF err = "nil"
                               THEN [handle |-> <<"arn:aws:codebuild:project//">>
                                                  \o sls.project,
                                     err |-> <<"nil">>]
                             ELSE [handle |-> <<>>,
                                   err |-> <<"Got error building project: ", err>>]

C21_Witness ==
  /\ sls.method = "Start" /\ sls.pc = "returned" /\ sls.launcherUpdate
  /\ SlsCount("StartBuildBatch") = 1 /\ SlsCount("UpdateProject") = 1
  /\ sls.result.err = <<"nil">> /\ sls.result.handle # <<>>

\* C22: checkLauncherUpdate returns false if and only if the bucket listing
\* succeeds and contains an object whose key is "sdinit-" followed by the
\* launcher version; it returns true when no such key is listed and also when
\* the listing fails, whatever the listing contains.
C22_LauncherUpdate ==
  "ListObjectsV2" \in SlsOps =>
    LET keys == { sls.aws.list.contents[i] : i \in 1..Len(sls.aws.list.contents) }
        listed == ("sdinit-" \o sls.provider.m["launcherVersion"][2]) \in keys
    IN  /\ sls.launcherUpdate = FALSE <=> (sls.aws.list.err = "nil" /\ listed)
        /\ sls.aws.list.err # "nil" => sls.launcherUpdate = TRUE

C22_Witness ==
  /\ "ListObjectsV2" \in SlsOps
  /\ sls.aws.list = [contents |-> <<"sdinit-v100", "sdinit-v101">>, err |-> "Access Denied"]
  /\ sls.provider.m["launcherVersion"] = Str("v101")
  /\ sls.launcherUpdate = TRUE

\* C23: Stop with provider.prune true only deletes the project: one
\* DeleteProject, no bucket listing and no stop-build call, and it returns nil
\* on success or an error prefixed "Got error deleting project: "; with prune
\* false it never deletes the project and takes the batch-stop path when a
\* launcher update is required, the single-build stop path otherwise.
C23_StopPrune ==
  (sls.method = "Stop" /\ sls.pc = "returned") =>
    IF sls.provider.m["prune"] = Bool("true")
      THEN /\ SlsOps = {"DeleteProject"} /\ Len(sls.calls) = 1
           /\ sls.result.err = IF sls.aws.delete = "nil" THEN <<"nil">>
                                ELSE <<"Got error deleting project: ", sls.aws.delete>>
    ELSE LET keys == { sls.aws.list.contents[i] : i \in 1..Len(sls.aws.list.contents) }
             update == sls.aws.list.err # "nil"
                       \/ ("sdinit-" \o sls.provider.m["launcherVersion"][2]) \notin keys
         IN  /\ "DeleteProject" \notin SlsOps
             /\ sls.calls[1].op = "ListObjectsV2"
             /\ IF update
                   THEN /\ sls.calls[2].op = "ListBuildBatchesForProject"
                        /\ SlsOps \cap {"ListBuildsForProject", "StopBuild"} = {}
                 ELSE /\ sls.calls[2].op = "ListBuildsForProject"
                      /\ SlsOps \cap {"ListBuildBatchesForProject", "StopBuildBatch"} = {}

C23_Witness ==
  /\ sls.method = "Stop" /\ sls.pc = "returned"
  /\ sls.provider.m["prune"] = Bool("true")
  /\ sls.calls = <<[op |-> "DeleteProject", arg |-> <<"deploy", 123>>]>>
  /\ sls.result.err = <<"Got error deleting project: ", "Access Denied">>

C23_WitnessBatch ==
  /\ sls.method = "Stop" /\ sls.pc = "returned"
  /\ sls.provider.m["prune"] = Bool("false")
  /\ SlsOps = {"ListObjectsV2", "ListBuildBatchesForProject", "BatchGetBuilds",
               "StopBuildBatch"}

\* the provider of the message of worker w, and its buildRegion, "" when the
\* message omits it
MessageProvider(w) == workers[w].value.provider.m

MessageBuildRegion(w) ==
  IF "buildRegion" \in DOMAIN MessageProvider(w) /\ MessageProvider(w)["buildRegion"] # Null
    THEN MessageProvider(w)["buildRegion"] ELSE Str("")

\* C25: the region used to resolve the executor of a message is
\* provider.buildRegion when that is non-empty and provider.region otherwise,
\* buildRegion counting as empty when the message omits it; provider.region
\* is not required when buildRegion is non-empty.
C25_EffectiveRegion ==
  \A w \in 1..Len(workers) :
    LET wk == workers[w]
        br == MessageBuildRegion(w)
        expected == IF br[2] # "" THEN br[2] ELSE MessageProvider(w)["region"][2]
    IN  /\ (Decoded(w) /\ Resolved(w) /\ wk.executorType \in {"eks", "sls"}) =>
             /\ wk.buildRegion = expected
             /\ wk.executor.region = expected
             /\ \A n \in 1..Len(ExecutorCalls(w)) :
                  ExecutorCalls(w)[n].exec.region = expected
        /\ (/\ wk.pc # "start" /\ wk.value.json = "ok" /\ wk.value.provider.kind = "map"
            /\ IsString(br) /\ br[2] # ""
            /\ "region" \notin DOMAIN MessageProvider(w)
            /\ wk.job # "" /\ wk.executorType \in {"eks", "sls"}) =>
             /\ Decoded(w) /\ wk.buildRegion = br[2]
             /\ wk.pc # "dispatch" => wk.executor.region = br[2]

C25_Witness ==
  \E w \in 1..Len(workers) :
    /\ MessageProvider(w) = [k \in {"buildRegion"} |-> Str("us-east-1")]
    /\ workers[w].executor = [name |-> "sls", region |-> "us-east-1"]
    /\ Len(ExecutorCalls(w)) = 1

C25_WitnessFallback ==
  \E w \in 1..Len(workers) :
    /\ MessageProvider(w) = [k \in {"region"} |-> Str("us-west-2")]
    /\ workers[w].executor = [name |-> "eks", region |-> "us-west-2"]
    /\ Len(ExecutorCalls(w)) = 1

C25_WitnessBoth ==
  \E w \in 1..Len(workers) :
    /\ MessageProvider(w) = FullProvider.m
    /\ workers[w].executor = [name |-> "sls", region |-> "us-east-1"]
    /\ Len(ExecutorCalls(w)) = 1

\* the start and the stop of one build: two workers of one partition with the
\* same buildId and executor, one with job "start" and one with job "stop"
SameBuild(w1, w2) ==
  /\ w1 # w2 /\ workers[w1].part = workers[w2].part
  /\ workers[w1].value.job = "start" /\ workers[w2].value.job = "stop"
  /\ workers[w1].value.executorType = workers[w2].value.executorType
  /\ workers[w1].value.buildConfig = workers[w2].value.buildConfig

\* C26: two messages of one partition are not serialized: when the workers of
\* a "start" and a "stop" record of one build are both about to call their
\* executor, either call can be made next, so that both orders are reachable,
\* Stop before Start included, whatever the order of the records; across
\* partitions every call of the partition processed earlier precedes the
\* calls of the later one, its workers being past their body before a worker
\* of the later partition is started.
C26_NotSerialized ==
  /\ \A w1, w2 \in 1..Len(workers) :
       (/\ SameBuild(w1, w2) /\ proc = "running"
        /\ workers[w1].pc = "dispatch" /\ workers[w2].pc = "dispatch") =>
         ENABLED PMDispatch(w1) /\ ENABLED PMDispatch(w2)
  /\ \A w1, w2 \in 1..Len(workers) :
       (w1 < w2 /\ workers[w1].part # workers[w2].part) =>
         /\ workers[w1].pc \in {"deferRecover", "ended"}
         /\ workers[w1].dones = 1

\* Stop has been called while the Start of the record before it is still to
\* be called
C26_Witness ==
  \E w1, w2 \in 1..Len(workers) :
    /\ SameBuild(w1, w2) /\ w1 < w2
    /\ Len(ExecutorCalls(w2)) = 1 /\ ExecutorCalls(w2)[1].method = "Stop"
    /\ workers[w1].pc = "dispatch" /\ ExecutorCalls(w1) = <<>>
    /\ ENABLED PMDispatch(w1)

\* Start has been called while the Stop of the record after it is still to be
\* called
C26_WitnessStartFirst ==
  \E w1, w2 \in 1..Len(workers) :
    /\ SameBuild(w1, w2) /\ w1 < w2
    /\ Len(ExecutorCalls(w1)) = 1 /\ ExecutorCalls(w1)[1].method = "Start"
    /\ workers[w2].pc = "dispatch" /\ ExecutorCalls(w2) = <<>>

\* the same two states for a stop record that precedes the start record
C26_WitnessStopRecordFirst ==
  \E w1, w2 \in 1..Len(workers) :
    /\ SameBuild(w1, w2) /\ w2 < w1
    /\ Len(ExecutorCalls(w1)) = 1
    /\ workers[w2].pc = "dispatch" /\ ExecutorCalls(w2) = <<>>

C26_WitnessBothCalled ==
  \E w1, w2 \in 1..Len(workers) :
    /\ SameBuild(w1, w2) /\ w1 < w2
    /\ Len(ExecutorCalls(w1)) = 1 /\ Len(ExecutorCalls(w2)) = 1
    /\ workers[w1].pc = "ended" /\ workers[w2].pc = "ended"

C26_WitnessPartitions ==
  \E w1, w2 \in 1..Len(workers) :
    /\ w1 < w2 /\ workers[w1].part # workers[w2].part
    /\ Len(ExecutorCalls(w1)) = 1 /\ Len(ExecutorCalls(w2)) = 1

\* the default of provider key k, as the claim lists them
DefaultOf(k) ==
  CASE k \in {"executorLogs", "dlc", "privilegedMode", "debugSession"} -> <<"bool", "false">>
    [] k = "prune" -> <<"bool", "true">>
    [] k = "imagePullCredentialsType" -> <<"str", "SERVICE_ROLE">>
    [] k = "environmentType" -> <<"str", "LINUX_CONTAINER">>
    [] k \in {"computeType", "launcherComputeType"} -> <<"str", "BUILD_GENERAL1_SMALL">>
    [] k = "queuedTimeout" -> <<"num", <<5>> >>
    [] k = "buildRegion" -> <<"str", "">>

DefaultedKeys ==
  {"executorLogs", "dlc", "privilegedMode", "prune", "imagePullCredentialsType",
   "environmentType", "computeType", "queuedTimeout", "launcherComputeType",
   "buildRegion", "debugSession"}

\* C27: after decoding, every key of the provider default set that is absent
\* from the message holds its default, and the top-level keys container and
\* serviceAccountName hold "aws/codebuild/standard:5.0" and "default" when the
\* message omits them; the config passed to the executor is this defaulted
\* config.
C27_DefaultsApplied ==
  \A w \in 1..Len(workers) :
    Decoded(w) =>
      LET wk == workers[w]
      IN  /\ \A k \in DefaultedKeys \ DOMAIN MessageProvider(w) :
               k \in DOMAIN wk.provider /\ wk.provider[k] = DefaultOf(k)
          /\ "container" \notin DOMAIN wk.value.buildConfig =>
               wk.buildConfig["container"] = <<"str", "aws/codebuild/standard:5.0">>
          /\ "serviceAccountName" \notin DOMAIN wk.value.buildConfig =>
               wk.buildConfig["serviceAccountName"] = <<"str", "default">>
          /\ \A n \in 1..Len(ExecutorCalls(w)) :
               LET c == ExecutorCalls(w)[n].config
               IN  /\ c.buildConfig = wk.buildConfig /\ c.provider = wk.provider
                   /\ \A k \in DefaultedKeys \ DOMAIN MessageProvider(w) :
                        c.provider[k] = DefaultOf(k)
                   /\ {"container", "serviceAccountName"} \subseteq DOMAIN c.buildConfig

C27_Witness ==
  \E w \in 1..Len(workers) :
    /\ MessageProvider(w) = [k \in {"region"} |-> Str("us-west-2")]
    /\ DOMAIN workers[w].value.buildConfig = {"apiUri", "token"}
    /\ Len(ExecutorCalls(w)) = 1
    /\ ExecutorCalls(w)[1].config.provider["prune"] = <<"bool", "true">>
    /\ ExecutorCalls(w)[1].config.provider["queuedTimeout"] = <<"num", <<5>> >>
    /\ ExecutorCalls(w)[1].config.buildConfig["container"]
         = <<"str", "aws/codebuild/standard:5.0">>
    /\ ExecutorCalls(w)[1].config.buildConfig["serviceAccountName"] = <<"str", "default">>

\* C28: in a worker that panics, wg.Done is issued before the panic is
\* recovered and before the stack trace is written, the deferred wg.Done
\* running before the deferred recoverPanic; the dispatcher can therefore be
\* past the partition while the recovery of that worker is still to come.
C28_DoneBeforeRecover ==
  \A w \in 1..Len(workers) :
    LET wk == workers[w]
    IN  /\ (wk.panicking /\ wk.pc = "deferDone") =>
             /\ wk.dones = 0 /\ ~wk.recovered /\ ~Logged(w, "stacktrace")
        /\ (wk.panicking /\ wk.pc = "deferRecover") =>
             /\ wk.dones = 1 /\ ~wk.recovered /\ ~Logged(w, "stacktrace")
        /\ (wk.recovered \/ Logged(w, "stacktrace")) =>
             wk.dones = 1 /\ wk.pc = "ended"

C28_Witness ==
  \E w \in 1..Len(workers) :
    /\ workers[w].panicking /\ workers[w].pc = "deferRecover"
    /\ workers[w].dones = 1 /\ ~Logged(w, "stacktrace")
    /\ Passed(workers[w].part) /\ hr.pc = "returned"

\* the effective region of the message of worker w
MessageRegion(w) ==
  IF MessageBuildRegion(w)[2] # "" THEN MessageBuildRegion(w)[2]
  ELSE MessageProvider(w)["region"][2]

C30_ClientSetCache ==
  /\ \A t \in Goroutines :
       LET gr == eks.g[t]
       IN  /\ (gr.pc \in {"use", "done"} /\ gr.saw # NilHandle) =>
                /\ gr.ret = [handle |-> gr.saw, err |-> <<"nil">>]
                /\ ~gr.contacted /\ gr.built = NilHandle
           /\ (gr.pc \in {"return", "use", "done"} /\ gr.built # NilHandle) =>
                /\ eks.k8sClientset # NilHandle
                /\ \E n \in 1..Len(eks.writes) : eks.writes[n] = gr.built
           /\ (gr.pc \in {"use", "panicked"} /\ gr.ret # NoResult
                 /\ gr.ret.err # <<"nil">>) =>
                /\ gr.ret.handle = NilHandle /\ gr.built = NilHandle
                /\ \A n \in 1..Len(eks.writes) : eks.writes[n][2] # t
                /\ (\A u \in Goroutines : eks.g[u].built = NilHandle
                                             /\ eks.g[u].saw = NilHandle) =>
                     eks.k8sClientset = NilHandle
  /\ eks.writes = <<>> <=> eks.k8sClientset = NilHandle
  /\ eks.writes # <<>> => eks.k8sClientset = eks.writes[Len(eks.writes)]
  /\ eks.config = [EksConfig EXCEPT !["clusterName"] = Str("")] =>
       /\ eks.k8sClientset = NilHandle /\ eks.describes = 0
       /\ \A t \in Goroutines :
            eks.g[t].pc \in {"use", "panicked"} =>
              eks.g[t].ret = [handle |-> NilHandle,
                              err |-> <<"Error calling DescribeCluster:",
                                        "cluster name is empty">>]

\* two first calls have both constructed a handle; the one written last is
\* the one cached
C30_Witness ==
  /\ Len(eks.writes) = 2 /\ eks.writes[1] # eks.writes[2]
  /\ eks.writes[1][3] = 1 /\ eks.writes[2][3] = 1
  /\ eks.describes = 2
  /\ eks.k8sClientset = eks.writes[2]
  /\ \E t \in Goroutines : eks.g[t].n = 2 /\ eks.g[t].pc = "done"
                             /\ eks.g[t].saw = eks.writes[2] /\ ~eks.g[t].contacted

\* C24: an executor call on a config that lacks a key the executor requires,
\* or that cannot obtain its client (an empty cluster name, say), fails fast
\* by returning an error value: it does not panic and does not go on with a
\* nil or empty value.
C24_FailsFast ==
  \A t \in Goroutines :
    LET gr == eks.g[t]
        lacking == ~Has(eks.config, "clusterName", "str")
                   \/ ~Has(eks.config, "namespace", "str") \/ ~PodOK(eks.config)
        noClient == gr.ret # NoResult /\ gr.ret.err # <<"nil">>
    IN  /\ gr.pc # "panicked"
        /\ (gr.pc = "done" /\ (lacking \/ noClient)) =>
             gr.out.hostname = "" /\ gr.out.err \notin {<<>>, <<"nil">>}

====
